---- MODULE Spec2Model ----
(***************************************************************************)
(* A model of the claude-agent-ai-provider adapter: the response           *)
(* converters (converters.ts), the error classifier (errors.ts) and the    *)
(* two call paths of ClaudeLanguageModel (language-model.ts): doGenerate,  *)
(* which aggregates the agent's event sequence, and doStream, which turns  *)
(* it into a ReadableStream of stream parts.                               *)
(*                                                                         *)
(* One behaviour is one call on a model instance.  The agent interface     *)
(* (query()) is the environment: each pull from its async iterator yields  *)
(* an event, ends the sequence, or throws.                                 *)
(***************************************************************************)
EXTENDS Integers, Sequences, FiniteSets, TLC

\* The most events the agent yields in one call.
MaxEvents == 3

---------------------------------------------------------------------------
(* Optional values: undefined is the empty sequence, v is <<v>>.           *)
None == <<>>
Some(v) == <<v>>
OrElse(opt, d) == IF opt = None THEN d ELSE opt[1]

---------------------------------------------------------------------------
(* Agent events (SDKMessage) and their content blocks.                     *)

\* JSON values of a tool input: an object is a sequence of <<key, value>>.
JNum(n) == [t |-> "num", n |-> n, s |-> ""]
JStr(s) == [t |-> "str", n |-> 0, s |-> s]

TextBlock(t) == [type |-> "text", text |-> t]
ToolUseBlock(i, n, inp) == [type |-> "tool_use", id |-> i, name |-> n, input |-> inp]
ThinkingBlock == [type |-> "thinking"]

AssistantEvent(content, stop) ==
  [type |-> "assistant", content |-> content, stop_reason |-> stop]

RawUsage(i, o, cc, cr) ==
  [input_tokens |-> i, output_tokens |-> o,
   cache_creation_input_tokens |-> cc, cache_read_input_tokens |-> cr]

ResultEvent(subtype, isError, usage) ==
  [type |-> "result", subtype |-> subtype, is_error |-> isError, usage |-> usage]

SystemEvent == [type |-> "system"]

\* A TLA+ string cannot hold a backtick: the model writes that character as ^.
Fence == "^^^"
FencedJson == Fence \o "json\n{\"a\":1}\n" \o Fence

AssistantEvents ==
  { AssistantEvent(Some(<<TextBlock("Hello")>>), None),
    AssistantEvent(Some(<<TextBlock("World")>>), Some("end_turn")),
    AssistantEvent(Some(<<TextBlock(FencedJson),
                          ToolUseBlock("t1", "Read", << <<"a", JNum(1)>> >>),
                          ThinkingBlock,
                          ToolUseBlock("t2", "Grep",
                                       << <<"path", JStr("x")>>, <<"n", JNum(2)>> >>),
                          TextBlock("b")>>), Some("tool_use")),
    AssistantEvent(None, Some("max_tokens")) }

ResultEvents ==
  { ResultEvent("success", FALSE, Some(RawUsage(Some(10), Some(5), Some(2), Some(3)))),
    ResultEvent("success", TRUE, Some(RawUsage(Some(1), None, None, None))),
    ResultEvent("error_during_execution", TRUE, None),
    ResultEvent("error_max_turns", FALSE, Some(RawUsage(Some(7), Some(1), None, Some(4)))) }

AgentEvents == AssistantEvents \cup ResultEvents \cup {SystemEvent}

\* What a pull from the agent's iterator may throw.
Failures ==
  { [isError |-> TRUE, message |-> "Claude Code process exited with code 1"],
    [isError |-> TRUE, message |-> "socket hang up"],
    [isError |-> FALSE, message |-> "thrown string"] }

---------------------------------------------------------------------------
(* converters.ts                                                           *)

\* Array.prototype.join
RECURSIVE Join(_, _)
Join(strs, sep) ==
  IF strs = <<>> THEN ""
  ELSE IF Len(strs) = 1 THEN strs[1]
  ELSE strs[1] \o sep \o Join(Tail(strs), sep)

\* The text parts extractTextFromContent keeps, in order.
RECURSIVE textParts(_)
textParts(content) ==
  IF content = <<>> THEN <<>>
  ELSE LET part == Head(content)
       IN  (IF part.type = "text" /\ part.text # "" THEN <<part.text>> ELSE <<>>)
           \o textParts(Tail(content))

extractTextFromContent(content) == Join(textParts(content), " ")

\* A prefix that names the user turn after the legacy completion format.
rolePrefixHuman(role) == IF role = "user" THEN "Human:" ELSE "Assistant:"

rolePrefix(role) == IF role = "user" THEN "User:" ELSE "Assistant:"

\* The entries convertPromptToAgentSDKFormat pushes, in order.
RECURSIVE promptParts(_)
promptParts(prompt) ==
  IF prompt = <<>> THEN <<>>
  ELSE LET message == Head(prompt)
           rest == promptParts(Tail(prompt))
       IN  IF message.role = "system" THEN rest
           ELSE LET contentText == extractTextFromContent(message.content)
                IN  IF contentText # ""
                      THEN <<rolePrefix(message.role) \o " " \o contentText>> \o rest
                    ELSE rest

convertPromptToAgentSDKFormat(prompt) == Join(promptParts(prompt), "\n\n")

\* As extractSystemPrompt, but a later system turn replaces an earlier one.
RECURSIVE extractSystemPromptLast(_)
extractSystemPromptLast(prompt) ==
  IF prompt = <<>> THEN None
  ELSE LET later == extractSystemPromptLast(Tail(prompt))
       IN  IF later # None THEN later
           ELSE IF Head(prompt).role = "system" THEN Some(Head(prompt).content)
           ELSE None

RECURSIVE extractSystemPrompt(_)
extractSystemPrompt(prompt) ==
  IF prompt = <<>> THEN None
  ELSE IF Head(prompt).role = "system" THEN Some(Head(prompt).content)
  ELSE extractSystemPrompt(Tail(prompt))

\* As convertBlocks, but only the text blocks are kept.
RECURSIVE convertBlocksTextOnly(_)
convertBlocksTextOnly(blocks) ==
  IF blocks = <<>> THEN <<>>
  ELSE LET block == Head(blocks)
           rest == convertBlocksTextOnly(Tail(blocks))
       IN  IF block.type = "text"
             THEN <<[type |-> "text", text |-> block.text]>> \o rest
           ELSE rest

RECURSIVE convertBlocks(_)
convertBlocks(blocks) ==
  IF blocks = <<>> THEN <<>>
  ELSE LET block == Head(blocks)
           rest == convertBlocks(Tail(blocks))
       IN  IF block.type = "text"
             THEN <<[type |-> "text", text |-> block.text]>> \o rest
           ELSE IF block.type = "tool_use"
             THEN <<[type |-> "tool-call", toolCallId |-> block.id,
                     toolName |-> block.name, input |-> block.input]>> \o rest
           ELSE rest

convertAssistantMessageToContent(message) ==
  IF message.content = None THEN <<>> ELSE convertBlocks(message.content[1])

\* As convertResultToUsage, but the total leaves the cache counts out.
convertResultToUsageNoCache(result) ==
  LET usage == result.usage
      field(f) == IF usage = None THEN None ELSE usage[1][f]
  IN  [inputTokens |-> OrElse(field("input_tokens"), 0),
       outputTokens |-> OrElse(field("output_tokens"), 0),
       totalTokens |-> OrElse(field("input_tokens"), 0)
                       + OrElse(field("output_tokens"), 0),
       cachedInputTokens |-> field("cache_read_input_tokens")]

\* As convertResultToUsage, but a result without a usage record reports the
\* counts as unknown (-1) instead of zero.
convertResultToUsageUnknownCounts(result) ==
  LET usage == result.usage
      absent == IF usage = None THEN 0 - 1 ELSE 0
      field(f) == IF usage = None THEN None ELSE usage[1][f]
  IN  [inputTokens |-> OrElse(field("input_tokens"), absent),
       outputTokens |-> OrElse(field("output_tokens"), absent),
       totalTokens |-> OrElse(field("input_tokens"), absent)
                       + OrElse(field("output_tokens"), absent)
                       + OrElse(field("cache_creation_input_tokens"), 0)
                       + OrElse(field("cache_read_input_tokens"), 0),
       cachedInputTokens |-> field("cache_read_input_tokens")]

convertResultToUsage(result) ==
  LET usage == result.usage
      field(f) == IF usage = None THEN None ELSE usage[1][f]
  IN  [inputTokens |-> OrElse(field("input_tokens"), 0),
       outputTokens |-> OrElse(field("output_tokens"), 0),
       totalTokens |-> OrElse(field("input_tokens"), 0)
                       + OrElse(field("output_tokens"), 0)
                       + OrElse(field("cache_creation_input_tokens"), 0)
                       + OrElse(field("cache_read_input_tokens"), 0),
       cachedInputTokens |-> field("cache_read_input_tokens")]

\* As convertStopReason, but an unmapped stop reason is reported as "other".
convertStopReasonDefaultsToOther(stopReason) ==
  IF stopReason = Some("end_turn") THEN "stop"
  ELSE IF stopReason = Some("max_tokens") THEN "length"
  ELSE IF stopReason = Some("tool_use") THEN "tool-calls"
  ELSE IF stopReason = Some("stop_sequence") THEN "stop"
  ELSE "other"

convertStopReason(stopReason) ==
  IF stopReason = Some("end_turn") THEN "stop"
  ELSE IF stopReason = Some("max_tokens") THEN "length"
  ELSE IF stopReason = Some("tool_use") THEN "tool-calls"
  ELSE IF stopReason = Some("stop_sequence") THEN "stop"
  ELSE "unknown"

\* collectAssistantMessages: its locals before the loop, ...
collectInit == [allContent |-> <<>>, finalResult |-> None, lastStopReason |-> None]

\* As collectStep, but nothing is accumulated once a result was captured.
collectStepStopsAtResult(acc, message) ==
  IF acc.finalResult # None THEN acc
  ELSE IF message.type = "assistant"
    THEN [acc EXCEPT !.allContent = @ \o convertAssistantMessageToContent(message),
                     !.lastStopReason = message.stop_reason]
  ELSE IF message.type = "result"
    THEN [acc EXCEPT !.finalResult = Some(message)]
  ELSE acc

\* As collectStep, but a turn without a stop reason keeps the stop reason of
\* an earlier turn (message.message?.stop_reason ?? lastStopReason).
collectStepKeepsStopReason(acc, message) ==
  IF message.type = "assistant"
    THEN [acc EXCEPT !.allContent = @ \o convertAssistantMessageToContent(message),
                     !.lastStopReason = IF message.stop_reason = None THEN @
                                        ELSE message.stop_reason]
  ELSE IF message.type = "result"
    THEN [acc EXCEPT !.finalResult = Some(message)]
  ELSE acc

\* As collectStep, but the first result event is kept (finalResult ??= message).
collectStepFirstResult(acc, message) ==
  IF message.type = "assistant"
    THEN [acc EXCEPT !.allContent = @ \o convertAssistantMessageToContent(message),
                     !.lastStopReason = message.stop_reason]
  ELSE IF message.type = "result"
    THEN [acc EXCEPT !.finalResult = IF @ = None THEN Some(message) ELSE @]
  ELSE acc

\* As collectStep, but every event that is not a result is taken for an
\* assistant turn (message.type !== 'result'): an event of another type has
\* no content and no stop reason.
collectStepAnyNonResult(acc, message) ==
  IF message.type = "assistant"
    THEN [acc EXCEPT !.allContent = @ \o convertAssistantMessageToContent(message),
                     !.lastStopReason = message.stop_reason]
  ELSE IF message.type = "result"
    THEN [acc EXCEPT !.finalResult = Some(message)]
  ELSE [acc EXCEPT !.lastStopReason = None]

\* As collectStep, but the content of a turn replaces what was collected
\* (allContent = messageContent).
collectStepReplacesContent(acc, message) ==
  IF message.type = "assistant"
    THEN [acc EXCEPT !.allContent = convertAssistantMessageToContent(message),
                     !.lastStopReason = message.stop_reason]
  ELSE IF message.type = "result"
    THEN [acc EXCEPT !.finalResult = Some(message)]
  ELSE acc

\* ... one iteration of its for-await loop, ...
collectStep(acc, message) ==
  IF message.type = "assistant"
    THEN [acc EXCEPT !.allContent = @ \o convertAssistantMessageToContent(message),
                     !.lastStopReason = message.stop_reason]
  ELSE IF message.type = "result"
    THEN [acc EXCEPT !.finalResult = Some(message)]
  ELSE acc

\* As collectReturn, but a result flagged is_error gives the finish reason
\* error, as in the streaming path.
collectReturnErrorFromResult(acc) ==
  [content |-> acc.allContent,
   finishReason |-> IF acc.finalResult # None /\ acc.finalResult[1].is_error
                      THEN "error"
                    ELSE convertStopReason(acc.lastStopReason),
   usage |-> IF acc.finalResult # None
               THEN convertResultToUsage(acc.finalResult[1])
               ELSE [inputTokens |-> 0, outputTokens |-> 0, totalTokens |-> 0,
                     cachedInputTokens |-> None],
   result |-> acc.finalResult]

\* ... and what it returns once the sequence is exhausted.
collectReturn(acc) ==
  [content |-> acc.allContent,
   finishReason |-> convertStopReason(acc.lastStopReason),
   usage |-> IF acc.finalResult # None
               THEN convertResultToUsage(acc.finalResult[1])
               ELSE [inputTokens |-> 0, outputTokens |-> 0, totalTokens |-> 0,
                     cachedInputTokens |-> None],
   result |-> acc.finalResult]

RECURSIVE collectLoop(_, _)
collectLoop(acc, messages) ==
  IF messages = <<>> THEN acc
  ELSE collectLoop(collectStep(acc, Head(messages)), Tail(messages))

collectAssistantMessages(messages) == collectReturn(collectLoop(collectInit, messages))

---------------------------------------------------------------------------
(* Strings                                                                 *)

IsSpace(c) == c \in {" ", "\n", "\t", "\r"}

RECURSIVE TrimStart(_)
TrimStart(s) ==
  IF Len(s) > 0 /\ IsSpace(SubSeq(s, 1, 1)) THEN TrimStart(SubSeq(s, 2, Len(s))) ELSE s

RECURSIVE TrimEnd(_)
TrimEnd(s) ==
  IF Len(s) > 0 /\ IsSpace(SubSeq(s, Len(s), Len(s)))
    THEN TrimEnd(SubSeq(s, 1, Len(s) - 1))
  ELSE s

\* String.prototype.trim
TrimText(s) == TrimEnd(TrimStart(s))

---------------------------------------------------------------------------
(* errors.ts                                                               *)

ClaudeError(name, message, cause) == [name |-> name, message |-> message, cause |-> cause]

ClaudeProviderError(message, cause) == ClaudeError("ClaudeProviderError", message, cause)

ClaudeAuthenticationError(message, cause) ==
  ClaudeError("ClaudeAuthenticationError", message, cause)

\* A rate-limit error built as new ClaudeRateLimitError(message, error): the
\* failure lands in the retryAfter parameter and the cause stays undefined.
ClaudeRateLimitErrorCauseAsRetryAfter(message, retryAfter, cause) ==
  [name |-> "ClaudeRateLimitError", message |-> message,
   retryAfter |-> cause, cause |-> [isError |-> FALSE, message |-> "undefined"]]

ClaudeRateLimitError(message, retryAfter, cause) ==
  [name |-> "ClaudeRateLimitError", message |-> message,
   retryAfter |-> retryAfter, cause |-> cause]

ClaudeModelNotFoundError(modelId, cause) ==
  ClaudeError("ClaudeModelNotFoundError",
              "Model '" \o modelId \o "' not found or not supported.", cause)

ClaudeInvalidRequestError(message, cause) ==
  ClaudeError("ClaudeInvalidRequestError", message, cause)

\* APICallError of @ai-sdk/provider, as convertToAISDKError builds it.
APICallError(message, url, requestBodyValues, statusCode, cause) ==
  [name |-> "AI_APICallError", message |-> message, url |-> url,
   requestBodyValues |-> requestBodyValues, statusCode |-> statusCode,
   cause |-> cause]

\* The empty object literal {} that stands for a missing request body.
EmptyObject == <<>>

\* A server-error test that leaves 500 itself out.
isServerErrorAbove500(statusCode) ==
  statusCode # None /\ statusCode # Some(0) /\ statusCode[1] > 500

\* statusCode && statusCode >= 500
isServerError(statusCode) ==
  statusCode # None /\ statusCode # Some(0) /\ statusCode[1] >= 500

convertToAISDKError(error, statusCode, url, requestBody) ==
  IF error.isError
    THEN IF statusCode = Some(401)
           THEN ClaudeAuthenticationError(error.message, error)
         ELSE IF statusCode = Some(404)
           THEN ClaudeModelNotFoundError(error.message, error)
         ELSE IF statusCode = Some(429)
           THEN ClaudeRateLimitError(error.message, None, error)
         ELSE IF statusCode = Some(400)
           THEN ClaudeInvalidRequestError(error.message, error)
         ELSE IF isServerError(statusCode)
           THEN APICallError("Server error: " \o error.message,
                             OrElse(url, "unknown"),
                             OrElse(requestBody, EmptyObject),
                             statusCode[1], error)
         ELSE ClaudeProviderError(error.message, error)
  ELSE ClaudeProviderError("Unknown error occurred", error)

\* String.prototype.includes
RECURSIVE Includes(_, _)
Includes(s, sub) ==
  IF Len(s) < Len(sub) THEN FALSE
  ELSE IF SubSeq(s, 1, Len(sub)) = sub THEN TRUE
  ELSE Includes(SubSeq(s, 2, Len(s)), sub)

\* Array.prototype.join('\n')
RECURSIVE JoinLines(_)
JoinLines(lines) ==
  IF lines = <<>> THEN ""
  ELSE IF Len(lines) = 1 THEN lines[1]
  ELSE lines[1] \o "\n" \o JoinLines(Tail(lines))

CommonCauses ==
  "\n\nCommon causes:\n"
  \o "  1. Missing authentication: Set ANTHROPIC_API_KEY or CLAUDE_CODE_OAUTH_TOKEN\n"
  \o "     - Get API key from: https://console.anthropic.com/settings/keys\n"
  \o "     - Or run: claude setup-token (for development)\n\n"
  \o "  2. Claude Code binary not found or not executable\n"
  \o "     - Check PATH includes Claude Code installation\n"
  \o "     - Or set pathToClaudeCodeExecutable in provider config\n\n"
  \o "  3. Invalid model or settings\n\n"
  \o "Enable debug output with: DEBUG=1 environment variable"

\* The message of the errors the classifier with a stderr parameter builds.
enhancedMessage(error, stderrOutput) ==
  LET lines == OrElse(stderrOutput, <<>>)
      stderrText == TrimText(JoinLines(lines))
  IN  IF lines # <<>>
        THEN IF stderrText # ""
               THEN error.message \o "\n\nClaude Code stderr output:\n" \o stderrText
             ELSE error.message
      ELSE IF Includes(error.message, "Claude Code process exited with code 1")
        THEN error.message \o CommonCauses
      ELSE error.message

\* The repository holds a second errors module, whose convertToAISDKError
\* takes the stderr output before the status code.
convertToAISDKErrorWithStderr(error, stderrOutput, statusCode, url, requestBody) ==
  IF error.isError
    THEN LET message == enhancedMessage(error, stderrOutput)
         IN  IF statusCode = Some(401)
               THEN ClaudeAuthenticationError(message, error)
             ELSE IF statusCode = Some(404)
               THEN ClaudeModelNotFoundError(message, error)
             ELSE IF statusCode = Some(429)
               THEN ClaudeRateLimitError(message, None, error)
             ELSE IF statusCode = Some(400)
               THEN ClaudeInvalidRequestError(message, error)
             ELSE IF isServerError(statusCode)
               THEN APICallError("Server error: " \o message,
                                 OrElse(url, "unknown"),
                                 OrElse(requestBody, EmptyObject),
                                 statusCode[1], error)
             ELSE ClaudeProviderError(message, error)
  ELSE ClaudeProviderError("Unknown error occurred", error)

\* As classify, but the failure is reported as a server error of status 500.
classifyAsServerError(module, error) ==
  IF module = "stderr"
    THEN convertToAISDKErrorWithStderr(error, None, Some(500), None, None)
  ELSE convertToAISDKError(error, Some(500), None, None)

\* convertToAISDKError(error), as doGenerate and doStream call it, in the
\* errors module the build holds.
classify(module, error) ==
  IF module = "stderr"
    THEN convertToAISDKErrorWithStderr(error, None, None, None, None)
  ELSE convertToAISDKError(error, None, None, None)

---------------------------------------------------------------------------
(* Structured-output post-processing of doGenerate.                        *)

StartsWith(s, p) == Len(s) >= Len(p) /\ SubSeq(s, 1, Len(p)) = p
EndsWith(s, p) == Len(s) >= Len(p) /\ SubSeq(s, Len(s) - Len(p) + 1, Len(s)) = p

\* The rest of s after its first line (the language tag of an opening fence).
RECURSIVE DropLine(_)
DropLine(s) ==
  IF s = "" THEN ""
  ELSE IF SubSeq(s, 1, 1) = "\n" THEN SubSeq(s, 2, Len(s))
  ELSE DropLine(SubSeq(s, 2, Len(s)))

stripMarkdownCodeBlocks(text) ==
  LET t == TrimText(text)
      opened == IF StartsWith(t, Fence) THEN DropLine(SubSeq(t, 4, Len(t))) ELSE t
      closed == IF EndsWith(opened, Fence)
                  THEN SubSeq(opened, 1, Len(opened) - 3)
                ELSE opened
  IN  IF StartsWith(t, Fence) THEN TrimText(closed) ELSE text

stripTextItem(item) ==
  IF item.type = "text"
    THEN [item EXCEPT !.text = stripMarkdownCodeBlocks(item.text)]
  ELSE item

stripContent(content) == [i \in 1..Len(content) |-> stripTextItem(content[i])]

---------------------------------------------------------------------------
(* language-model.ts: createStreamFromAgentSDK                             *)

\* JSON.stringify of a tool input.
JSONValue(v) == IF v.t = "num" THEN ToString(v.n) ELSE ToString(v.s)

RECURSIVE JSONMembers(_)
JSONMembers(obj) ==
  IF obj = <<>> THEN ""
  ELSE ToString(obj[1][1]) \o ":" \o JSONValue(obj[1][2])
       \o (IF Len(obj) > 1 THEN "," \o JSONMembers(Tail(obj)) ELSE "")

JSONStringify(obj) == "{" \o JSONMembers(obj) \o "}"

\* The stream part enqueued for a text block, with the delta id drawn for it.
textDeltaPart(block, textPartId) ==
  [type |-> "text-delta", id |-> "text-" \o ToString(textPartId), delta |-> block.text]

\* As toolCallPart, with the block's id and name taken for one another.
toolCallPartSwapped(block) ==
  [type |-> "tool-call", toolCallId |-> block.name, toolName |-> block.id,
   input |-> JSONStringify(block.input)]

\* The stream part enqueued for a tool_use block.
toolCallPart(block) ==
  [type |-> "tool-call", toolCallId |-> block.id, toolName |-> block.name,
   input |-> JSONStringify(block.input)]

\* As streamBlocks, but each part is put at the head of what is enqueued
\* (unshift for push).
RECURSIVE streamBlocksLastFirst(_, _)
streamBlocksLastFirst(blocks, textPartId) ==
  IF blocks = <<>> THEN [parts |-> <<>>, textPartId |-> textPartId]
  ELSE LET block == Head(blocks)
       IN  IF block.type = "text"
             THEN LET rest == streamBlocksLastFirst(Tail(blocks), textPartId + 1)
                  IN  [rest EXCEPT !.parts = @ \o <<textDeltaPart(block, textPartId)>>]
           ELSE IF block.type = "tool_use"
             THEN LET rest == streamBlocksLastFirst(Tail(blocks), textPartId)
                  IN  [rest EXCEPT !.parts = @ \o <<toolCallPart(block)>>]
           ELSE streamBlocksLastFirst(Tail(blocks), textPartId)

\* The loop over the blocks of one assistant message: the parts it enqueues
\* and the value of textPartId after it.
RECURSIVE streamBlocks(_, _)
streamBlocks(blocks, textPartId) ==
  IF blocks = <<>> THEN [parts |-> <<>>, textPartId |-> textPartId]
  ELSE LET block == Head(blocks)
       IN  IF block.type = "text"
             THEN LET rest == streamBlocks(Tail(blocks), textPartId + 1)
                  IN  [rest EXCEPT !.parts = <<textDeltaPart(block, textPartId)>> \o @]
           ELSE IF block.type = "tool_use"
             THEN LET rest == streamBlocks(Tail(blocks), textPartId)
                  IN  [rest EXCEPT !.parts = <<toolCallPart(block)>> \o @]
           ELSE streamBlocks(Tail(blocks), textPartId)

\* As streamFinishReason, with is_error looked at before the subtype.
streamFinishReasonErrorFirst(message) ==
  IF message.is_error THEN "error"
  ELSE IF message.subtype = "success" THEN "stop"
  ELSE "stop"

\* The finish reason of a result message.
streamFinishReason(message) ==
  IF message.subtype = "success" THEN "stop"
  ELSE IF message.is_error THEN "error"
  ELSE "stop"

finishPart(message) ==
  [type |-> "finish", finishReason |-> streamFinishReason(message),
   usage |-> convertResultToUsage(message)]

\* As streamStep, but the delta ids are counted from 0 in every turn.
streamStepRestartsIds(message, textPartId) ==
  IF message.type = "assistant"
    THEN IF message.content # None
           THEN streamBlocks(message.content[1], 0)
         ELSE [parts |-> <<>>, textPartId |-> textPartId]
  ELSE IF message.type = "result"
    THEN [parts |-> <<finishPart(message)>>, textPartId |-> textPartId]
  ELSE [parts |-> <<>>, textPartId |-> textPartId]

\* One iteration of the for-await loop of start().
streamStep(message, textPartId) ==
  IF message.type = "assistant"
    THEN IF message.content # None
           THEN streamBlocks(message.content[1], textPartId)
         ELSE [parts |-> <<>>, textPartId |-> textPartId]
  ELSE IF message.type = "result"
    THEN [parts |-> <<finishPart(message)>>, textPartId |-> textPartId]
  ELSE [parts |-> <<>>, textPartId |-> textPartId]

\* What a stream enqueues for the events when its counter starts at
\* textPartId.
RECURSIVE streamLoop(_, _)
streamLoop(messages, textPartId) ==
  IF messages = <<>> THEN <<>>
  ELSE LET step == streamStep(Head(messages), textPartId)
       IN  step.parts \o streamLoop(Tail(messages), step.textPartId)

---------------------------------------------------------------------------
(* utils.ts: detectClaudeBinaryPath                                        *)

\* The file system and environment the lookup reads: HOME, the version each
\* path reports (none when the path cannot be run or prints no version), and
\* the first line `which claude` prints.
FileSystem(home, versions, whichPath) ==
  [home |-> home, versions |-> versions, whichPath |-> whichPath]

\* parseInt of a string of digits; NaN is modelled as -1.
DigitOf(c) == IF \E d \in 0..9 : ToString(d) = c
                THEN CHOOSE d \in 0..9 : ToString(d) = c
              ELSE 0 - 1

RECURSIVE parseIntFrom(_, _)
parseIntFrom(str, value) ==
  IF str = "" \/ DigitOf(SubSeq(str, 1, 1)) < 0 THEN value
  ELSE parseIntFrom(SubSeq(str, 2, Len(str)), value * 10 + DigitOf(SubSeq(str, 1, 1)))

parseInt(str) ==
  IF str = "" \/ DigitOf(SubSeq(str, 1, 1)) < 0 THEN 0 - 1 ELSE parseIntFrom(str, 0)

\* version.split('.')[0]
RECURSIVE firstPart(_)
firstPart(version) ==
  IF version = "" \/ SubSeq(version, 1, 1) = "." THEN ""
  ELSE SubSeq(version, 1, 1) \o firstPart(SubSeq(version, 2, Len(version)))

isModernVersion(version) ==
  LET part == firstPart(version)
  IN  parseInt(IF part = "" THEN "0" ELSE part) >= 2

getClaudeVersion(fs, path) == fs.versions[path]

which(fs) == fs.whichPath

UsrLocalPath == "/usr/local/bin/claude"
HomebrewPath == "/opt/homebrew/bin/claude"
HomePath(home) == home \o "/.claude/local/claude"

commonPaths(fs) ==
  (IF fs.home # None /\ fs.home # Some("") THEN <<HomePath(fs.home[1])>> ELSE <<>>)
  \o <<UsrLocalPath, HomebrewPath>>

IsModernAt(fs, path) ==
  getClaudeVersion(fs, path) # None /\ isModernVersion(getClaudeVersion(fs, path)[1])

\* The lookup of detectClaudeBinaryPath (its try block): a path, or null.
lookupClaudePath(fs) ==
  LET paths == commonPaths(fs)
      found == { i \in 1..Len(paths) : IsModernAt(fs, paths[i]) }
  IN  IF found # {}
        THEN Some(paths[CHOOSE i \in found : \A j \in found : i <= j])
      ELSE IF which(fs) # None /\ IsModernAt(fs, which(fs)[1])
        THEN which(fs)
      ELSE None

\* cachedClaudePath before the first call.
Undefined == <<>>

\* A test of the cache that takes a cached null for no cache (a test of
\* truthiness).
isCachedTruthy(cached) == cached # Undefined /\ cached[1] # None

\* cachedClaudePath !== undefined
isCached(cached) == cached # Undefined

---------------------------------------------------------------------------
VARIABLES
  pc,             \* where the call is: idle, generating, gen_returned,
                  \* gen_thrown, streaming, stream_done, stream_failed,
                  \* stream_rejected
  errorsModule,   \* which of the repository's two errors modules is built
  jsonMode,       \* options.responseFormat?.type === 'json'
  received,       \* the events pulled from the agent so far, in order
  pulls,          \* the number of pulls made on the agent's iterator
  agentState,     \* the agent's iterator: open, done (exhausted), failed (threw)
  acc,            \* the locals of collectAssistantMessages
  genReturn,      \* what doGenerate returned, if it has
  thrown,         \* what doGenerate or doStream threw, if it has
  classifyCalls,  \* the number of calls of convertToAISDKError
  textPartId,     \* the delta-id counter of createStreamFromAgentSDK
  streamState,    \* the ReadableStream: none, readable, closed, errored
  queue,          \* the parts enqueued and not yet read
  closeRequested, \* controller.close() was called with parts still queued
  storedError,    \* the error the stream was errored with, if it was
  emitted,        \* every part passed to controller.enqueue, in order
  delivered,      \* the parts the consumer has read, in order
  applied,        \* the converter applied on its own: its name, input, output
  twoCalls,       \* two calls on one model instance: each call's kind,
                  \* status, events received and output
  accCells,       \* the locals of collectAssistantMessages, one cell a call
  counterCells,   \* the textPartId of createStreamFromAgentSDK, one cell a call
  cachedClaudePath, \* the module variable of utils.ts
  fileSystem,     \* what the lookup of detectClaudeBinaryPath would read now
  detectReturns,  \* what the calls of detectClaudeBinaryPath returned, in order
  lookups         \* the number of calls that ran the lookup

genVars == <<acc, genReturn>>
streamVars == <<textPartId, streamState, queue, closeRequested, storedError,
                emitted, delivered>>
detectVars == <<cachedClaudePath, fileSystem, detectReturns, lookups>>
pureVars == <<applied, detectVars>>
twoVars == <<twoCalls, accCells, counterCells>>
vars == <<pureVars, twoVars, errorsModule, jsonMode, pc, received, pulls, agentState, thrown,
          classifyCalls, genVars, streamVars>>

\* No converter has been applied on its own.
NotApplied == [op |-> "none", arg |-> <<>>, out |-> <<>>]

\* No second call is under way.
NoCalls == [c \in 1..2 |-> [kind |-> "none", status |-> "idle", received |-> <<>>,
                            output |-> <<>>]]

\* The state of one call, before the call is made.
CallInit ==
  /\ pc = "idle"
  /\ errorsModule \in {"plain", "stderr"}
  /\ jsonMode = FALSE
  /\ received = <<>>
  /\ pulls = 0
  /\ agentState = "open"
  /\ acc = collectInit
  /\ genReturn = None
  /\ thrown = None
  /\ classifyCalls = 0
  /\ textPartId = 0
  /\ streamState = "none"
  /\ queue = <<>>
  /\ closeRequested = FALSE
  /\ storedError = None
  /\ emitted = <<>>
  /\ delivered = <<>>

\* A file system without any claude binary.
BareFileSystem ==
  FileSystem(None,
             [path \in {UsrLocalPath, HomebrewPath} |-> None],
             None)

\* The module of utils.ts is loaded and detectClaudeBinaryPath was not
\* called.
DetectInit ==
  /\ cachedClaudePath = Undefined
  /\ detectReturns = <<>>
  /\ lookups = 0

Init ==
  /\ CallInit
  /\ applied = NotApplied
  /\ twoCalls = NoCalls
  /\ accCells = [c \in 1..2 |-> collectInit]
  /\ counterCells = [c \in 1..2 |-> 0]
  /\ DetectInit
  /\ fileSystem = BareFileSystem

\* doGenerate up to its await: the prompt is converted and query() is called.
DoGenerate(json) ==
  /\ pc = "idle"
  /\ pc' = "generating"
  /\ jsonMode' = json
  /\ UNCHANGED <<pureVars, twoVars,
                 errorsModule, agentState, received, pulls, acc, genReturn,
                 thrown, classifyCalls, streamVars>>

\* Converting the prompt or calling query() throws: the catch of doGenerate
\* classifies and rethrows.
DoGenerateThrows(error) ==
  /\ pc = "idle"
  /\ thrown' = Some(classify(errorsModule, error))
  /\ classifyCalls' = classifyCalls + 1
  /\ pc' = "gen_thrown"
  /\ UNCHANGED <<pureVars, twoVars,
                 errorsModule, agentState, received, pulls, jsonMode,
                 genVars, streamVars>>

\* The agent yields an event to the loop of collectAssistantMessages.
GenPull(message) ==
  /\ pc = "generating"
  /\ Len(received) < MaxEvents
  /\ received' = Append(received, message)
  /\ pulls' = pulls + 1
  /\ acc' = collectStep(acc, message)
  /\ UNCHANGED <<pureVars, twoVars,
                 errorsModule, agentState, pc, jsonMode, genReturn, thrown,
                 classifyCalls, streamVars>>

\* As doGenerateReturn, but the fences are stripped whatever the response
\* format is.
doGenerateReturnAlwaysStrips(collected, json) ==
  [content |-> stripContent(collected.content),
   finishReason |-> collected.finishReason,
   usage |-> collected.usage,
   warnings |-> <<>>,
   response |-> IF collected.result # None
                  THEN Some([body |-> collected.result[1]])
                ELSE None]

\* What doGenerate returns from what collectAssistantMessages returned.
doGenerateReturn(collected, json) ==
  [content |-> IF json THEN stripContent(collected.content) ELSE collected.content,
   finishReason |-> collected.finishReason,
   usage |-> collected.usage,
   warnings |-> <<>>,
   response |-> IF collected.result # None
                  THEN Some([body |-> collected.result[1]])
                ELSE None]

\* The sequence ends: collectAssistantMessages returns and doGenerate
\* post-processes and returns.
GenEnd ==
  /\ pc = "generating"
  /\ pulls' = pulls + 1
  /\ agentState' = "done"
  /\ genReturn' = Some(doGenerateReturn(collectReturn(acc), jsonMode))
  /\ pc' = "gen_returned"
  /\ UNCHANGED <<pureVars, twoVars,
                 errorsModule, jsonMode, received, acc, thrown,
                 classifyCalls, streamVars>>

\* As GenFail, but the failure is swallowed and what was accumulated is
\* returned.
GenFailReturnsPartial(error) ==
  /\ pc = "generating"
  /\ pulls' = pulls + 1
  /\ agentState' = "failed"
  /\ genReturn' = Some(doGenerateReturn(collectReturn(acc), jsonMode))
  /\ pc' = "gen_returned"
  /\ UNCHANGED <<pureVars, twoVars,
                 errorsModule, jsonMode, received, acc, thrown,
                 classifyCalls, streamVars>>

\* The pull throws: collectAssistantMessages rejects, the catch of doGenerate
\* classifies and rethrows.
GenFail(error) ==
  /\ pc = "generating"
  /\ pulls' = pulls + 1
  /\ agentState' = "failed"
  /\ thrown' = Some(classify(errorsModule, error))
  /\ classifyCalls' = classifyCalls + 1
  /\ pc' = "gen_thrown"
  /\ UNCHANGED <<pureVars, twoVars,
                 errorsModule, received, jsonMode, genVars, streamVars>>

\* doStream: the prompt is converted, query() is called, the ReadableStream is
\* built and returned; its start() begins to run.
DoStream(json) ==
  /\ pc = "idle"
  /\ pc' = "streaming"
  /\ jsonMode' = json
  /\ streamState' = "readable"
  /\ UNCHANGED <<pureVars, twoVars,
                 errorsModule, agentState, received, pulls, thrown,
                 classifyCalls, genVars, textPartId, queue, closeRequested,
                 storedError, emitted, delivered>>

\* Converting the prompt or calling query() throws: the catch of doStream
\* classifies and rethrows.
DoStreamThrows(error) ==
  /\ pc = "idle"
  /\ thrown' = Some(classify(errorsModule, error))
  /\ classifyCalls' = classifyCalls + 1
  /\ pc' = "stream_rejected"
  /\ UNCHANGED <<pureVars, twoVars,
                 errorsModule, agentState, received, pulls, jsonMode,
                 genVars, streamVars>>

\* The agent yields an event to the loop of start(): its parts are enqueued.
StreamPull(message) ==
  /\ pc = "streaming"
  /\ Len(received) < MaxEvents
  /\ received' = Append(received, message)
  /\ pulls' = pulls + 1
  /\ LET step == streamStep(message, textPartId)
     IN  /\ textPartId' = step.textPartId
         /\ queue' = queue \o step.parts
         /\ emitted' = emitted \o step.parts
  /\ UNCHANGED <<pureVars, twoVars,
                 errorsModule, agentState, pc, thrown, classifyCalls,
                 jsonMode, genVars, streamState, closeRequested, storedError,
                 delivered>>

\* As StreamEnd, but start() returns without calling controller.close().
StreamEndLeavesOpen ==
  /\ pc = "streaming"
  /\ pulls' = pulls + 1
  /\ agentState' = "done"
  /\ pc' = "stream_done"
  /\ UNCHANGED <<pureVars, twoVars,
                 errorsModule, received, thrown, classifyCalls, jsonMode,
                 genVars, streamVars>>

\* The sequence ends: controller.close().
StreamEnd ==
  /\ pc = "streaming"
  /\ pulls' = pulls + 1
  /\ agentState' = "done"
  /\ pc' = "stream_done"
  /\ IF queue = <<>>
       THEN streamState' = "closed" /\ UNCHANGED closeRequested
     ELSE closeRequested' = TRUE /\ UNCHANGED streamState
  /\ UNCHANGED <<pureVars, twoVars,
                 errorsModule, received, thrown, classifyCalls, jsonMode,
                 genVars, textPartId, queue, storedError, emitted,
                 delivered>>

\* As StreamFail, with the failure handed to controller.error as it was
\* caught.
StreamFailUnclassified(error) ==
  /\ pc = "streaming"
  /\ pulls' = pulls + 1
  /\ agentState' = "failed"
  /\ pc' = "stream_failed"
  /\ storedError' = Some(error)
  /\ streamState' = "errored"
  /\ queue' = <<>>
  /\ UNCHANGED <<pureVars, twoVars,
                 errorsModule, received, thrown, classifyCalls, jsonMode,
                 genVars, textPartId, closeRequested, emitted, delivered>>

\* The pull throws: controller.error(convertToAISDKError(error)).
StreamFail(error) ==
  /\ pc = "streaming"
  /\ pulls' = pulls + 1
  /\ agentState' = "failed"
  /\ pc' = "stream_failed"
  /\ storedError' = Some(classify(errorsModule, error))
  /\ classifyCalls' = classifyCalls + 1
  /\ streamState' = "errored"
  /\ queue' = <<>>
  /\ UNCHANGED <<pureVars, twoVars,
                 errorsModule, received, thrown, jsonMode, genVars,
                 textPartId, closeRequested, emitted, delivered>>

\* The consumer reads one part from the stream.
Read ==
  /\ streamState = "readable"
  /\ queue # <<>>
  /\ delivered' = Append(delivered, Head(queue))
  /\ queue' = Tail(queue)
  /\ streamState' = IF closeRequested /\ Tail(queue) = <<>> THEN "closed"
                    ELSE streamState
  /\ UNCHANGED <<pureVars, twoVars,
                 errorsModule, agentState, pc, received, pulls, thrown,
                 classifyCalls, jsonMode, genVars, textPartId,
                 closeRequested, storedError, emitted>>

Next ==
  \/ \E json \in BOOLEAN : DoGenerate(json)
  \/ \E error \in Failures : DoGenerateThrows(error)
  \/ \E message \in AgentEvents : GenPull(message)
  \/ GenEnd
  \/ \E error \in Failures : GenFail(error)
  \/ \E json \in BOOLEAN : DoStream(json)
  \/ \E error \in Failures : DoStreamThrows(error)
  \/ \E message \in AgentEvents : StreamPull(message)
  \/ StreamEnd
  \/ \E error \in Failures : StreamFail(error)
  \/ Read

Spec == Init /\ [][Next]_vars

\* The consumer of a stream keeps reading while parts are queued.
SpecLive == Spec /\ WF_vars(Read)

---------------------------------------------------------------------------
(* Vocabulary of the properties.                                           *)

InStream == pc \in {"streaming", "stream_done", "stream_failed"}

MapSeq(F(_), seq) == [i \in 1..Len(seq) |-> F(seq[i])]

IsAssistant(message) == message.type = "assistant"
IsResult(message) == message.type = "result"
IsTextBlock(block) == block.type = "text"
IsToolUseBlock(block) == block.type = "tool_use"
IsTextDelta(part) == part.type = "text-delta"
IsToolCall(part) == part.type = "tool-call"
IsFinish(part) == part.type = "finish"

\* What an agent event brings, in the order it brings it: the content blocks
\* of an assistant turn, a result event itself, nothing for any other event.
RECURSIVE SourceItems(_)
SourceItems(messages) ==
  IF messages = <<>> THEN <<>>
  ELSE LET message == Head(messages)
           items == IF IsAssistant(message)
                      THEN OrElse(message.content, <<>>)
                    ELSE IF IsResult(message) THEN <<message>>
                    ELSE <<>>
       IN  items \o SourceItems(Tail(messages))

ProducesOutput(item) == item.type \in {"text", "tool_use", "result"}

HelloTurn == AssistantEvent(Some(<<TextBlock("Hello")>>), None)
WorldTurn == AssistantEvent(Some(<<TextBlock("World")>>), Some("end_turn"))

\* The kinds of the parts emitted, with the text of each text-delta.
EmittedShape ==
  MapSeq(LAMBDA part : IF IsTextDelta(part) THEN <<part.type, part.delta>>
                       ELSE <<part.type, "">>, emitted)

---------------------------------------------------------------------------
\* C1: the parts the stream emits are, in order, the parts of the text
\* blocks, tool_use blocks and result events received, in the order the
\* events were received and the blocks stand in their turn, and there is no
\* other part; "Hello", "World", result gives text-delta("Hello"),
\* text-delta("World"), finish.
C1_StreamingOrder ==
  InStream =>
    /\ EmittedShape =
         MapSeq(LAMBDA item : IF item.type = "text" THEN <<"text-delta", item.text>>
                              ELSE IF item.type = "tool_use" THEN <<"tool-call", "">>
                              ELSE <<"finish", "">>,
                SelectSeq(SourceItems(received), ProducesOutput))
    /\ MapSeq(LAMBDA part : part.toolCallId, SelectSeq(emitted, IsToolCall)) =
         MapSeq(LAMBDA item : item.id, SelectSeq(SourceItems(received), IsToolUseBlock))
    /\ \A r \in ResultEvents :
         received = <<HelloTurn, WorldTurn, r>> =>
           EmittedShape = << <<"text-delta", "Hello">>, <<"text-delta", "World">>,
                             <<"finish", "">> >>

C1_Witness ==
  /\ InStream
  /\ \E r \in ResultEvents : received = <<HelloTurn, WorldTurn, r>>
  /\ Len(emitted) = 3

\* C2: once a finish part has been emitted, no further part is emitted on
\* the stream: a finish part is the last part emitted.
C2_FinishIsLast ==
  \A i \in 1..Len(emitted) : IsFinish(emitted[i]) => i = Len(emitted)

\* err is the generic provider error with the failure as its cause.
IsGenericErrorOf(err, error) ==
  /\ DOMAIN err = {"name", "message", "cause"}
  /\ err.name = "ClaudeProviderError"
  /\ err.cause = error
  /\ ~error.isError => err.message = "Unknown error occurred"

\* C3: a failure of a pull in the streaming path errors the stream with the
\* classified failure; doStream does not reject; the failing pull is the
\* last pull, and after it nothing is emitted and the stream is not closed.
C3_StreamFailure ==
  /\ [](pc = "stream_failed" =>
          /\ streamState = "errored"
          /\ storedError # None
          /\ \E error \in Failures : IsGenericErrorOf(storedError[1], error)
          /\ thrown = None
          /\ classifyCalls = 1
          /\ agentState = "failed"
          /\ pulls = Len(received) + 1
          /\ ~closeRequested)
  /\ [][pc = "stream_failed" =>
          UNCHANGED <<pulls, received, emitted, streamState, storedError,
                      closeRequested>>]_vars

C3_Witness ==
  /\ pc = "stream_failed"
  /\ Len(received) >= 2
  /\ emitted # <<>>
  /\ storedError # None

\* The JSON text of the tool inputs of the agent events.
ExpectedJSON(id) ==
  IF id = "t1" THEN "{\"a\":1}" ELSE "{\"path\":\"x\",\"n\":2}"

\* C4: in the streaming path each text block gives exactly one text-delta
\* part with the block's text, each tool_use block gives exactly one
\* tool-call part with the block's id, name and its input as JSON text, and
\* a block of any other type gives no part.
C4_OnePartPerBlock ==
  InStream =>
    LET blocks == SelectSeq(SourceItems(received), LAMBDA item : ~IsResult(item))
        texts == SelectSeq(blocks, IsTextBlock)
        tools == SelectSeq(blocks, IsToolUseBlock)
        deltas == SelectSeq(emitted, IsTextDelta)
        calls == SelectSeq(emitted, IsToolCall)
    IN  /\ Len(deltas) = Len(texts)
        /\ \A i \in 1..Len(deltas) : deltas[i].delta = texts[i].text
        /\ Len(calls) = Len(tools)
        /\ \A i \in 1..Len(calls) :
             /\ calls[i].toolCallId = tools[i].id
             /\ calls[i].toolName = tools[i].name
             /\ calls[i].input = ExpectedJSON(tools[i].id)
        /\ Len(SelectSeq(emitted, LAMBDA part : ~IsFinish(part)))
             = Len(texts) + Len(tools)

C4_Witness ==
  /\ InStream
  /\ Len(SelectSeq(emitted, IsToolCall)) >= 2
  /\ Len(SelectSeq(emitted, IsTextDelta)) >= 3
  /\ \E i \in 1..Len(received) :
       /\ IsAssistant(received[i])
       /\ received[i].content # None
       /\ \E j \in 1..Len(received[i].content[1]) :
            received[i].content[1][j].type = "thinking"

---------------------------------------------------------------------------
\* The content item a text or tool_use block stands for in the aggregated
\* result.
ItemOfBlock(block) ==
  IF IsTextBlock(block) THEN [type |-> "text", text |-> block.text]
  ELSE [type |-> "tool-call", toolCallId |-> block.id, toolName |-> block.name,
        input |-> block.input]

\* The content items of every assistant turn of the events, in event order.
ContentOfTurns(messages) ==
  MapSeq(ItemOfBlock,
         SelectSeq(SourceItems(messages),
                   LAMBDA item : IsTextBlock(item) \/ IsToolUseBlock(item)))

\* The positions of the events of one kind.
Positions(messages, Test(_)) == {i \in 1..Len(messages) : Test(messages[i])}
Last(positions) == CHOOSE i \in positions : \A j \in positions : j <= i

\* C6: when the sequence ends without failure, the content collected (and
\* the content doGenerate returns without JSON mode) is the content items of
\* all assistant turns received, in order, those after a result event too.
C6_AggregationComplete ==
  pc = "gen_returned" =>
    /\ acc.allContent = ContentOfTurns(received)
    /\ ~jsonMode => genReturn[1].content = ContentOfTurns(received)

C6_Witness ==
  /\ pc = "gen_returned"
  /\ ~jsonMode
  /\ Len(received) = 3
  /\ IsAssistant(received[1]) /\ IsResult(received[2]) /\ IsAssistant(received[3])
  /\ Len(genReturn[1].content) >= 5

\* C7: the aggregated finish reason is the stop-reason mapping of the stop
\* reason of the last assistant turn received, unknown when that turn has no
\* stop reason or when there is no assistant turn.
C7_LastStopReasonWins ==
  pc = "gen_returned" =>
    LET turns == Positions(received, IsAssistant)
    IN  genReturn[1].finishReason =
          IF turns = {} THEN "unknown"
          ELSE LET stop == received[Last(turns)].stop_reason
               IN  IF stop = None THEN "unknown"
                   ELSE IF stop[1] = "end_turn" THEN "stop"
                   ELSE IF stop[1] = "max_tokens" THEN "length"
                   ELSE IF stop[1] = "tool_use" THEN "tool-calls"
                   ELSE IF stop[1] = "stop_sequence" THEN "stop"
                   ELSE "unknown"

C7_Witness ==
  /\ pc = "gen_returned"
  /\ Len(received) = 3
  /\ IsAssistant(received[1]) /\ received[1].stop_reason = Some("tool_use")
  /\ IsAssistant(received[2]) /\ received[2].stop_reason = None
  /\ IsResult(received[3])
  /\ genReturn[1].finishReason = "unknown"

\* The event sequences of assistant turns alone.
TurnSeqs == UNION {[1..n -> AssistantEvents] : n \in 0..(MaxEvents - 1)}

\* The received events are assistant turns followed by one result event.
TurnsThenResult ==
  /\ Len(received) >= 2
  /\ IsResult(received[Len(received)])
  /\ \A i \in 1..(Len(received) - 1) : IsAssistant(received[i])

\* The stop reason of the last assistant turn, if there is a turn.
LastTurnStop(messages) ==
  LET turns == Positions(messages, IsAssistant)
  IN  IF turns = {} THEN None ELSE Some(messages[Last(turns)].stop_reason)

\* C8 (as claimed): for assistant turns followed by a result event the
\* aggregated finish reason is determined by that result event: any sequence
\* of turns that ends with the same result event gives the same finish reason.
C8_ResultDeterminesFinish ==
  (pc = "gen_returned" /\ TurnsThenResult) =>
    \A turns \in TurnSeqs \ {<<>>} :
      collectAssistantMessages(Append(turns, received[Len(received)])).finishReason
        = genReturn[1].finishReason

\* C8 (amended): for assistant turns followed by a result event the
\* aggregated finish reason is determined by the stop reason of the last
\* assistant turn: any sequence whose last turn carries the same stop reason
\* gives the same finish reason, whatever result event ends it.
C8_LastTurnDeterminesFinish ==
  (pc = "gen_returned" /\ TurnsThenResult) =>
    \A turns \in TurnSeqs, result \in ResultEvents :
      LastTurnStop(turns) = LastTurnStop(received) =>
        collectAssistantMessages(Append(turns, result)).finishReason
          = genReturn[1].finishReason

C8_Witness ==
  /\ pc = "gen_returned"
  /\ TurnsThenResult
  /\ Len(received) = 3
  /\ received[3].is_error
  /\ genReturn[1].finishReason = "tool-calls"

\* C9: the aggregated usage and the returned response body come from the
\* last result event received; with no result event the usage is the zero
\* record and no response body is returned.
C9_LastResultWins ==
  pc = "gen_returned" =>
    LET results == Positions(received, IsResult)
    IN  IF results = {}
          THEN /\ genReturn[1].usage.inputTokens = 0
               /\ genReturn[1].usage.outputTokens = 0
               /\ genReturn[1].usage.totalTokens = 0
               /\ genReturn[1].response = None
        ELSE LET last == received[Last(results)]
             IN  /\ genReturn[1].usage = convertResultToUsage(last)
                 /\ genReturn[1].response = Some([body |-> last])

C9_Witness ==
  /\ pc = "gen_returned"
  /\ Len(received) = 3
  /\ IsResult(received[1]) /\ IsResult(received[2])
  /\ received[1].usage # received[2].usage
  /\ genReturn[1].usage.inputTokens = 10
  /\ IsAssistant(received[3])

\* C10: doGenerate returns nothing before the sequence is exhausted, and
\* when a pull fails it returns no content and throws the failure
\* classified, the classifier having been called once.
C10_NoPartialResult ==
  /\ pc = "generating" => genReturn = None /\ thrown = None
  /\ pc = "gen_returned" =>
       /\ agentState = "done"
       /\ pulls = Len(received) + 1
       /\ thrown = None
       /\ classifyCalls = 0
  /\ (pc = "gen_thrown" /\ agentState = "failed") =>
       /\ genReturn = None
       /\ thrown # None
       /\ \E error \in Failures : IsGenericErrorOf(thrown[1], error)
       /\ classifyCalls = 1
       /\ pulls = Len(received) + 1

C10_Witness ==
  /\ pc = "gen_thrown"
  /\ agentState = "failed"
  /\ Len(acc.allContent) >= 2
  /\ genReturn = None

---------------------------------------------------------------------------
(* provider.ts and buildAgentSDKOptions                                    *)

\* The outcome of a call: a value returned or an error thrown.
Return(value) == [kind |-> "return", value |-> value]
Throw(error) == [kind |-> "throw", value |-> error]

\* The fields of a new ClaudeLanguageModel that a caller reads.
ClaudeLanguageModel(modelId) ==
  [specificationVersion |-> "v2", provider |-> "claude-agent", modelId |-> modelId]

\* NoSuchModelError of @ai-sdk/provider.
NoSuchModelError(modelId, modelType, message) ==
  [name |-> "AI_NoSuchModelError", modelId |-> modelId, modelType |-> modelType,
   message |-> message]

languageModel(modelId) == Return(ClaudeLanguageModel(modelId))

\* An embedding factory that falls back to the language model of the id.
textEmbeddingModelFallsBack(modelId) == Return(ClaudeLanguageModel(modelId))

textEmbeddingModel(modelId) ==
  Throw(NoSuchModelError(modelId, "textEmbeddingModel",
                         "Text embedding models are not supported by this provider."))

imageModel(modelId) ==
  Throw(NoSuchModelError(modelId, "imageModel",
                         "Image generation is not supported by this provider."))

\* claude(modelId): a new provider's languageModel.
claude(modelId) == languageModel(modelId)

\* Tools of a request.
FunctionTool(name) == [type |-> "function", name |-> name]
ProviderDefinedTool(name) == [type |-> "provider-defined", name |-> name]

\* tool => 'type' in tool && tool.type === 'function' ? tool.name : 'unknown'
toolName(tool) == IF tool.type = "function" THEN tool.name ELSE "unknown"

\* agentOptions.allowedTools as buildAgentSDKOptions sets it, or leaves it
\* unset.
allowedTools(tools) ==
  IF tools # None /\ Len(tools[1]) > 0
    THEN Some(SelectSeq([i \in 1..Len(tools[1]) |-> toolName(tools[1][i])],
                        LAMBDA name : name # "unknown"))
  ELSE None

---------------------------------------------------------------------------
(* The converters as pure functions: each action applies one of them to    *)
(* an input and records the call.                                          *)

MaxBlocks == 3
MaxTurns == 3

SeqsUpTo(S, n) == UNION { [1..k -> S] : k \in 0..n }

PureBlocks ==
  { TextBlock("Hello"), TextBlock(" spaced \n"), TextBlock(""),
    ToolUseBlock("t1", "Read", << <<"a", JNum(1)>> >>),
    ToolUseBlock("t2", "Grep", <<>>),
    ThinkingBlock }

PureMessages ==
  { AssistantEvent(None, None) }
    \cup { AssistantEvent(Some(blocks), None) : blocks \in SeqsUpTo(PureBlocks, MaxBlocks) }

\* Turns of a LanguageModelV2Prompt.
SystemTurn(text) == [role |-> "system", content |-> text]
Turn(role, content) == [role |-> role, content |-> content]
TextPart(text) == [type |-> "text", text |-> text]
FilePart == [type |-> "file"]
ToolResultPart == [type |-> "tool-result"]

PromptTurns ==
  { SystemTurn("SYS-A"), SystemTurn("SYS-B"),
    Turn("user", <<TextPart("x")>>),
    Turn("user", <<TextPart("p"), FilePart, TextPart("q")>>),
    Turn("user", <<FilePart>>),
    Turn("assistant", <<TextPart("y")>>),
    Turn("tool", <<ToolResultPart>>) }

Prompts == SeqsUpTo(PromptTurns, MaxTurns)

ModelIds == {"sonnet", "haiku", "opus", "text-embedding-3-small", ""}

MaxTools == 3

RequestTools ==
  { FunctionTool("Read"), FunctionTool("Grep"), FunctionTool("unknown"),
    ProviderDefinedTool("bash") }

ToolLists == {None} \cup { Some(tools) : tools \in SeqsUpTo(RequestTools, MaxTools) }

TokenCounts == {None, Some(0), Some(2), Some(3), Some(5), Some(10)}

PureResults ==
  { ResultEvent("success", FALSE, None) }
    \cup { ResultEvent("success", FALSE, Some(RawUsage(i, o, cc, cr))) :
             i \in TokenCounts, o \in TokenCounts,
             cc \in TokenCounts, cr \in TokenCounts }

StopReasons ==
  { None, Some("end_turn"), Some("max_tokens"), Some("tool_use"),
    Some("stop_sequence"), Some("pause_turn"), Some("refusal"), Some("banana"),
    Some("") }

StatusCodes ==
  { None, Some(0), Some(200), Some(400), Some(401), Some(403), Some(404),
    Some(429), Some(499), Some(500), Some(503), Some(599) }

StderrOutputs == { None, Some(<<>>), Some(<<" ">>), Some(<<"boom", "trace ">>) }

Urls == { None, Some("https://api.anthropic.com/v1/messages") }

RequestBodies == { None, Some(<< <<"model", JStr("sonnet")>> >>) }

\* No call of the model is under way; the classifier calls name the errors
\* module themselves.
InitPure ==
  /\ CallInit
  /\ errorsModule = "plain"
  /\ applied = NotApplied
  /\ twoCalls = NoCalls
  /\ accCells = [c \in 1..2 |-> collectInit]
  /\ counterCells = [c \in 1..2 |-> 0]
  /\ DetectInit
  /\ fileSystem = BareFileSystem

callVars ==
  <<errorsModule, jsonMode, pc, received, pulls, agentState, thrown,
    classifyCalls, genVars, streamVars>>

\* The call op(arg) returned out.
Apply(op, arg, out) ==
  /\ applied' = [op |-> op, arg |-> arg, out |-> out]
  /\ UNCHANGED <<detectVars, twoVars, callVars>>

\* One behaviour is one call of one converter.
CallConvertAssistantMessageToContent ==
  /\ applied = NotApplied
  /\ \E message \in PureMessages :
       Apply("convertAssistantMessageToContent", message,
             convertAssistantMessageToContent(message))

CallConvertPromptToAgentSDKFormat ==
  /\ applied = NotApplied
  /\ \E prompt \in Prompts :
       Apply("convertPromptToAgentSDKFormat", prompt,
             convertPromptToAgentSDKFormat(prompt))

CallExtractSystemPrompt ==
  /\ applied = NotApplied
  /\ \E prompt \in Prompts :
       Apply("extractSystemPrompt", prompt, extractSystemPrompt(prompt))

CallConvertResultToUsage ==
  /\ applied = NotApplied
  /\ \E result \in PureResults :
       Apply("convertResultToUsage", result, convertResultToUsage(result))

CallConvertStopReason ==
  /\ applied = NotApplied
  /\ \E stopReason \in StopReasons :
       Apply("convertStopReason", stopReason, convertStopReason(stopReason))

\* A call of the classifier of one of the two errors modules; only the
\* module of lines 248-310 has the stderr parameter.
CallConvertToAISDKError ==
  /\ applied = NotApplied
  /\ \E module \in {"plain", "stderr"}, error \in Failures,
        stderrOutput \in StderrOutputs, statusCode \in StatusCodes,
        url \in Urls, requestBody \in RequestBodies :
       /\ module = "plain" => stderrOutput = None
       /\ Apply("convertToAISDKError",
                [module |-> module, error |-> error, stderrOutput |-> stderrOutput,
                 statusCode |-> statusCode, url |-> url, requestBody |-> requestBody],
                IF module = "stderr"
                  THEN convertToAISDKErrorWithStderr(error, stderrOutput, statusCode,
                                                     url, requestBody)
                ELSE convertToAISDKError(error, statusCode, url, requestBody))

CallLanguageModel ==
  /\ applied = NotApplied
  /\ \E modelId \in ModelIds :
       Apply("languageModel", modelId, languageModel(modelId))

CallClaude ==
  /\ applied = NotApplied
  /\ \E modelId \in ModelIds : Apply("claude", modelId, claude(modelId))

CallTextEmbeddingModel ==
  /\ applied = NotApplied
  /\ \E modelId \in ModelIds :
       Apply("textEmbeddingModel", modelId, textEmbeddingModel(modelId))

CallImageModel ==
  /\ applied = NotApplied
  /\ \E modelId \in ModelIds : Apply("imageModel", modelId, imageModel(modelId))

\* buildAgentSDKOptions, for the allowedTools it sets.
CallBuildAgentSDKOptions ==
  /\ applied = NotApplied
  /\ \E tools \in ToolLists :
       Apply("buildAgentSDKOptions", tools, [allowedTools |-> allowedTools(tools)])

NextPure ==
  \/ CallConvertAssistantMessageToContent
  \/ CallConvertPromptToAgentSDKFormat
  \/ CallExtractSystemPrompt
  \/ CallConvertResultToUsage
  \/ CallConvertStopReason
  \/ CallConvertToAISDKError
  \/ CallLanguageModel
  \/ CallClaude
  \/ CallTextEmbeddingModel
  \/ CallImageModel
  \/ CallBuildAgentSDKOptions

SpecPure == InitPure /\ [][NextPure]_vars

Called(op) == applied.op = op

---------------------------------------------------------------------------
(* C11                                                                     *)

KeptBlocks(blocks) ==
  SelectSeq(blocks, LAMBDA block : IsTextBlock(block) \/ IsToolUseBlock(block))

\* C11: convertAssistantMessageToContent keeps the order of the blocks: the
\* i-th text or tool_use block of the message gives the i-th item, a text
\* block a text item with the same text, a tool_use block a tool-call item
\* with the block's id, name and input (the structure itself, not a string);
\* other blocks and a content that is not a list give no item.
C11_ContentConversion ==
  Called("convertAssistantMessageToContent") =>
    LET message == applied.arg
        items == applied.out
        kept == IF message.content = None THEN <<>>
                ELSE KeptBlocks(message.content[1])
    IN  /\ Len(items) = Len(kept)
        /\ \A i \in 1..Len(kept) :
             /\ IsTextBlock(kept[i]) =>
                  items[i] = [type |-> "text", text |-> kept[i].text]
             /\ IsToolUseBlock(kept[i]) =>
                  /\ items[i].type = "tool-call"
                  /\ items[i].toolCallId = kept[i].id
                  /\ items[i].toolName = kept[i].name
                  /\ items[i].input = kept[i].input
                  /\ items[i].input # JSONStringify(kept[i].input)

\* A message whose tool_use block stands between an ignored block and a text
\* block was converted to a tool call followed by a text.
C11_Witness ==
  /\ Called("convertAssistantMessageToContent")
  /\ applied.arg.content =
       Some(<<ThinkingBlock, ToolUseBlock("t1", "Read", << <<"a", JNum(1)>> >>),
              TextBlock(" spaced \n")>>)
  /\ Len(applied.out) = 2
  /\ applied.out[1].type = "tool-call"
  /\ applied.out[2].type = "text"

---------------------------------------------------------------------------
(* C12                                                                     *)

IsSystemTurn(turn) == turn.role = "system"
IsSpokenTurn(turn) == turn.role \in {"user", "assistant"}

\* The texts of the text parts of a turn, joined by a space.
TurnText(turn) ==
  Join(MapSeq(LAMBDA part : part.text,
              SelectSeq(turn.content,
                        LAMBDA part : part.type = "text" /\ part.text # "")),
       " ")

EntryOf(turn) ==
  (IF turn.role = "user" THEN "User:" ELSE "Assistant:") \o " " \o TurnText(turn)

---------------------------------------------------------------------------
(* C13                                                                     *)

SystemPositions(prompt) == { i \in 1..Len(prompt) : IsSystemTurn(prompt[i]) }

\* C13: extractSystemPrompt returns the content of the first system turn of
\* the prompt, wherever it stands and whatever system turns follow it, and
\* undefined when the prompt has no system turn.
C13_FirstSystemWins ==
  Called("extractSystemPrompt") =>
    LET prompt == applied.arg
        positions == SystemPositions(prompt)
    IN  IF positions = {} THEN applied.out = None
        ELSE \E first \in positions :
               /\ \A i \in positions : first <= i
               /\ applied.out = Some(prompt[first].content)

\* For [system "SYS-A", user "x", system "SYS-B"] the call returned "SYS-A".
C13_Witness ==
  /\ Called("extractSystemPrompt")
  /\ applied.arg = <<SystemTurn("SYS-A"), Turn("user", <<TextPart("x")>>),
                     SystemTurn("SYS-B")>>
  /\ applied.out = Some("SYS-A")

---------------------------------------------------------------------------
(* C14, C15                                                                *)

\* A token count, a missing one counting as zero.
Count(opt) == IF opt = None THEN 0 ELSE opt[1]

\* C14: for a result with a usage record, totalTokens is the sum of the
\* input, output, cache-creation and cache-read counts, a missing count
\* being zero; inputTokens and outputTokens are the raw counts, and
\* cachedInputTokens is the cache-read count, reported on its own.
C14_UsageAdditivity ==
  Called("convertResultToUsage") /\ applied.arg.usage # None =>
    LET raw == applied.arg.usage[1]
        usage == applied.out
    IN  /\ usage.totalTokens =
             Count(raw.input_tokens) + Count(raw.output_tokens)
             + Count(raw.cache_creation_input_tokens)
             + Count(raw.cache_read_input_tokens)
        /\ usage.inputTokens = Count(raw.input_tokens)
        /\ usage.outputTokens = Count(raw.output_tokens)
        /\ usage.cachedInputTokens = raw.cache_read_input_tokens

\* The counts 10, 5, 2 and 3 gave the total 20 and the cached count 3.
C14_Witness ==
  /\ Called("convertResultToUsage")
  /\ applied.arg.usage = Some(RawUsage(Some(10), Some(5), Some(2), Some(3)))
  /\ applied.out.totalTokens = 20
  /\ applied.out.cachedInputTokens = Some(3)

\* A usage record of zero counts and no positive cached count.
IsZeroUsage(usage) ==
  /\ usage.inputTokens = 0
  /\ usage.outputTokens = 0
  /\ usage.totalTokens = 0
  /\ Count(usage.cachedInputTokens) = 0

\* C15: a result event without a usage record gives zero input, output and
\* total tokens and no positive cached count, in the usage doGenerate
\* returns (when it is the last result received) and in the finish part the
\* stream emits for it.
C15_MissingUsageIsZero ==
  /\ pc = "gen_returned" =>
       LET results == Positions(received, IsResult)
       IN  results # {} /\ received[Last(results)].usage = None =>
             IsZeroUsage(genReturn[1].usage)
  /\ InStream =>
       LET results == SelectSeq(received, IsResult)
           finishes == SelectSeq(emitted, IsFinish)
       IN  \A i \in 1..Len(finishes) :
             i <= Len(results) /\ results[i].usage = None =>
               IsZeroUsage(finishes[i].usage)

\* A stream emitted the finish part of a result without usage after one of
\* a result with usage.
C15_Witness ==
  /\ InStream
  /\ Len(received) = 2
  /\ IsResult(received[1]) /\ received[1].usage # None
  /\ IsResult(received[2]) /\ received[2].usage = None
  /\ Len(emitted) = 2
  /\ emitted[1].usage.totalTokens = 20
  /\ emitted[2].usage.totalTokens = 0

---------------------------------------------------------------------------
(* C16                                                                     *)

\* C16: convertStopReason is total: end_turn and stop_sequence give stop,
\* max_tokens gives length, tool_use gives tool-calls, and every other
\* value, the missing one too, gives unknown; it never gives error,
\* content-filter or other.
C16_StopReasonMapping ==
  Called("convertStopReason") =>
    LET stopReason == applied.arg
        reason == applied.out
    IN  /\ stopReason = Some("end_turn") => reason = "stop"
        /\ stopReason = Some("max_tokens") => reason = "length"
        /\ stopReason = Some("tool_use") => reason = "tool-calls"
        /\ stopReason = Some("stop_sequence") => reason = "stop"
        /\ stopReason # Some("end_turn") /\ stopReason # Some("max_tokens")
             /\ stopReason # Some("tool_use") /\ stopReason # Some("stop_sequence") =>
             reason = "unknown"
        /\ reason \in {"stop", "length", "tool-calls", "unknown"}
        /\ reason \notin {"error", "content-filter", "other"}

\* An unrecognised stop reason was mapped to unknown.
C16_Witness ==
  /\ Called("convertStopReason")
  /\ applied.arg = Some("banana")
  /\ applied.out = "unknown"

---------------------------------------------------------------------------
(* C17, C18                                                                *)

\* C17: convertToAISDKError, in either errors module, classifies an Error
\* by the status code: 401 an authentication error, 404 a model-not-found
\* error, 429 a rate-limit error, 400 an invalid-request error, 500 and
\* above an APICallError that carries the status, the url (or "unknown")
\* and the request body (or an empty object); any other status and a
\* missing one give the generic provider error.  A value that is not an
\* Error gives the generic provider error whatever the status.
C17_Classification ==
  Called("convertToAISDKError") =>
    LET error == applied.arg.error
        statusCode == applied.arg.statusCode
        out == applied.out
    IN  IF ~error.isError
          THEN out.name = "ClaudeProviderError"
        ELSE /\ statusCode = Some(401) => out.name = "ClaudeAuthenticationError"
             /\ statusCode = Some(404) => out.name = "ClaudeModelNotFoundError"
             /\ statusCode = Some(429) => out.name = "ClaudeRateLimitError"
             /\ statusCode = Some(400) => out.name = "ClaudeInvalidRequestError"
             /\ Count(statusCode) >= 500 =>
                  /\ out.name = "AI_APICallError"
                  /\ out.statusCode = statusCode[1]
                  /\ out.url = OrElse(applied.arg.url, "unknown")
                  /\ out.requestBodyValues = OrElse(applied.arg.requestBody, <<>>)
             /\ Count(statusCode) < 500
                  /\ Count(statusCode) \notin {400, 401, 404, 429} =>
                  out.name = "ClaudeProviderError"

\* An Error with status 500 and neither url nor request body was classified
\* as a server error.
C17_Witness ==
  /\ Called("convertToAISDKError")
  /\ applied.arg.error.isError
  /\ applied.arg.statusCode = Some(500)
  /\ applied.arg.url = None
  /\ applied.out.name = "AI_APICallError"
  /\ applied.out.url = "unknown"

\* C18: the error convertToAISDKError returns has the value it was given as
\* its cause, unchanged, in every branch.
C18_CauseRetained ==
  Called("convertToAISDKError") => applied.out.cause = applied.arg.error

\* The rate-limit branch of the module with the stderr parameter returned
\* an error whose cause is the failure.
C18_Witness ==
  /\ Called("convertToAISDKError")
  /\ applied.arg.module = "stderr"
  /\ applied.arg.statusCode = Some(429)
  /\ applied.arg.error.isError
  /\ applied.out.name = "ClaudeRateLimitError"
  /\ applied.out.cause = applied.arg.error

---------------------------------------------------------------------------
(* C19                                                                     *)

\* The texts of the text blocks of the assistant turns, in event order.
RawTexts(messages) ==
  MapSeq(LAMBDA block : block.text, SelectSeq(SourceItems(messages), IsTextBlock))

\* C19: with JSON output requested doGenerate returns as many content items
\* as were collected, in the same order, every text item with its text
\* passed through the fence-stripping transform and every tool-call item
\* unchanged; without JSON output requested it returns the collected items
\* unchanged; a stream's text deltas carry the raw block texts, also when
\* JSON output was requested.
C19_StripScope ==
  /\ pc = "gen_returned" =>
       LET collected == ContentOfTurns(received)
           content == genReturn[1].content
       IN  IF jsonMode
             THEN /\ Len(content) = Len(collected)
                  /\ \A i \in 1..Len(collected) :
                       IF collected[i].type = "text"
                         THEN content[i] =
                                [type |-> "text",
                                 text |-> stripMarkdownCodeBlocks(collected[i].text)]
                       ELSE content[i] = collected[i]
           ELSE content = collected
  /\ InStream =>
       MapSeq(LAMBDA part : part.delta, SelectSeq(emitted, IsTextDelta))
         = RawTexts(received)

\* With JSON output requested, doGenerate returned the fenced text of a turn
\* without its fences, between the unchanged items of the turn.
C19_Witness ==
  /\ pc = "gen_returned"
  /\ jsonMode
  /\ Len(received) = 1
  /\ RawTexts(received) = <<FencedJson, "b">>
  /\ Len(genReturn[1].content) = 4
  /\ genReturn[1].content[1] = [type |-> "text", text |-> "{\"a\":1}"]
  /\ genReturn[1].content[2].type = "tool-call"
  /\ genReturn[1].content[2].input = << <<"a", JNum(1)>> >>
  /\ genReturn[1].content[4] = [type |-> "text", text |-> "b"]

---------------------------------------------------------------------------
(* Two calls on one model instance, their steps interleaved.               *)

MaxTwoEvents == 2

TwoEvents ==
  { AssistantEvent(Some(<<TextBlock("Hello")>>), None),
    AssistantEvent(Some(<<TextBlock("World"),
                          ToolUseBlock("t1", "Read", << <<"a", JNum(1)>> >>),
                          TextBlock("b")>>), Some("end_turn")),
    ResultEvent("success", FALSE, Some(RawUsage(Some(10), Some(5), Some(2), Some(3)))) }

\* Where the locals of a call live if they were one field of the instance.
frameShared(c) == 1

\* Where the locals of call c live: allContent, finalResult and
\* lastStopReason of collectAssistantMessages and textPartId of
\* createStreamFromAgentSDK are locals of the invocation.
frame(c) == c

\* doGenerate or doStream is called: the locals are created.
TwoStart(c, kind) ==
  /\ twoCalls[c].status = "idle"
  /\ twoCalls' = [twoCalls EXCEPT ![c] = [kind |-> kind, status |-> "running",
                                          received |-> <<>>, output |-> <<>>]]
  /\ accCells' = IF kind = "generate"
                   THEN [accCells EXCEPT ![frame(c)] = collectInit]
                 ELSE accCells
  /\ counterCells' = IF kind = "stream"
                       THEN [counterCells EXCEPT ![frame(c)] = 0]
                     ELSE counterCells
  /\ UNCHANGED <<pureVars, callVars>>

\* One iteration of the loop of call c.
TwoPull(c, message) ==
  /\ twoCalls[c].status = "running"
  /\ Len(twoCalls[c].received) < MaxTwoEvents
  /\ IF twoCalls[c].kind = "generate"
       THEN /\ accCells' = [accCells EXCEPT
                              ![frame(c)] = collectStep(@, message)]
            /\ twoCalls' = [twoCalls EXCEPT
                              ![c].received = Append(@, message)]
            /\ UNCHANGED counterCells
     ELSE LET step == streamStep(message, counterCells[frame(c)])
          IN  /\ counterCells' = [counterCells EXCEPT
                                    ![frame(c)] = step.textPartId]
              /\ twoCalls' = [twoCalls EXCEPT
                                ![c].received = Append(@, message),
                                ![c].output = @ \o step.parts]
              /\ UNCHANGED accCells
  /\ UNCHANGED <<pureVars, callVars>>

\* The sequence of call c ends: collectAssistantMessages returns, or the
\* stream is closed.
TwoEnd(c) ==
  /\ twoCalls[c].status = "running"
  /\ twoCalls' = [twoCalls EXCEPT
                    ![c].status = "done",
                    ![c].output = IF twoCalls[c].kind = "generate"
                                    THEN collectReturn(accCells[frame(c)])
                                  ELSE @]
  /\ UNCHANGED <<accCells, counterCells, pureVars, callVars>>

NextTwo ==
  \/ \E c \in 1..2, kind \in {"generate", "stream"} : TwoStart(c, kind)
  \/ \E c \in 1..2, message \in TwoEvents : TwoPull(c, message)
  \/ \E c \in 1..2 : TwoEnd(c)

SpecTwo == Init /\ [][NextTwo]_vars

---------------------------------------------------------------------------
(* C20                                                                     *)

\* C20: whatever the interleaving of two calls on one instance, a finished
\* doGenerate call has collected what collectAssistantMessages gives for its
\* own events alone, and a stream has enqueued what it enqueues for its own
\* events alone with a counter that starts at 0, so that its first text
\* delta has the id text-0.
C20_CallsIndependent ==
  \A c \in 1..2 :
    /\ twoCalls[c].kind = "generate" /\ twoCalls[c].status = "done" =>
         twoCalls[c].output = collectAssistantMessages(twoCalls[c].received)
    /\ twoCalls[c].kind = "stream" =>
         /\ twoCalls[c].output = streamLoop(twoCalls[c].received, 0)
         /\ LET deltas == SelectSeq(twoCalls[c].output, IsTextDelta)
            IN  \A i \in 1..Len(deltas) : deltas[i].id = "text-" \o ToString(i - 1)

\* Two streams are under way at once, each with two text turns received and
\* its delta ids counted from text-0.
C20_Witness ==
  /\ \A c \in 1..2 :
       /\ twoCalls[c].kind = "stream"
       /\ twoCalls[c].status = "running"
       /\ Len(twoCalls[c].received) = 2
       /\ \A i \in 1..2 : twoCalls[c].received[i] =
                             AssistantEvent(Some(<<TextBlock("Hello")>>), None)
       /\ MapSeq(LAMBDA part : part.id, twoCalls[c].output) = <<"text-0", "text-1">>

---------------------------------------------------------------------------
(* C21                                                                     *)

\* The number of parts the stream enqueues for one event.
PartsOf(message) == Len(streamStep(message, 0).parts)

\* The number of events, counted from the last one received, whose parts
\* make up the last pending parts enqueued.
RECURSIVE BufferedEvents(_, _)
BufferedEvents(messages, pending) ==
  IF pending <= 0 \/ messages = <<>> THEN 0
  ELSE LET n == PartsOf(messages[Len(messages)])
       IN  (IF n > 0 THEN 1 ELSE 0)
           + BufferedEvents(SubSeq(messages, 1, Len(messages) - 1), pending - n)

\* C21: the parts enqueued and not yet read come from at most one agent
\* event: the stream pulls the next event only as the consumer reads.
C21_Backpressure ==
  InStream => BufferedEvents(received, Len(queue)) <= 1

---------------------------------------------------------------------------
(* C22                                                                     *)

\* C22: textEmbeddingModel and imageModel throw a NoSuchModelError for every
\* model id and return no model; languageModel and claude return for every
\* id a model with that modelId, provider claude-agent and specification
\* version v2.
C22_OnlyLanguageModels ==
  /\ Called("textEmbeddingModel") \/ Called("imageModel") =>
       /\ applied.out.kind = "throw"
       /\ applied.out.value.name = "AI_NoSuchModelError"
       /\ applied.out.value.modelId = applied.arg
       /\ applied.out.value.modelType = applied.op
  /\ Called("languageModel") \/ Called("claude") =>
       /\ applied.out.kind = "return"
       /\ applied.out.value.modelId = applied.arg
       /\ applied.out.value.provider = "claude-agent"
       /\ applied.out.value.specificationVersion = "v2"

\* textEmbeddingModel threw for an id that languageModel accepts.
C22_Witness ==
  /\ Called("textEmbeddingModel")
  /\ applied.arg = "sonnet"
  /\ applied.out.kind = "throw"
  /\ languageModel(applied.arg).kind = "return"

---------------------------------------------------------------------------
(* C30                                                                     *)

\* C30: with a non-empty tool list allowedTools is the list of the names of
\* the function tools of the request, in request order, whatever the names
\* are; with no tool list or an empty one allowedTools is not set.
C30_AllowedTools ==
  Called("buildAgentSDKOptions") =>
    LET tools == applied.arg
    IN  IF tools = None \/ tools = Some(<<>>)
          THEN applied.out.allowedTools = None
        ELSE applied.out.allowedTools =
               Some(MapSeq(LAMBDA tool : tool.name,
                           SelectSeq(tools[1], LAMBDA tool : tool.type = "function")))

---------------------------------------------------------------------------
(* C23                                                                     *)

\* C23: in a stream the k-th text-delta part emitted, counted over all
\* turns, has the id text-(k-1); no two text-delta parts have the same id;
\* the counter has advanced by the number of text-delta parts only, tool-call
\* and finish parts taking no id.
C23_DeltaIdsMonotone ==
  InStream =>
    LET deltas == SelectSeq(emitted, IsTextDelta)
    IN  /\ \A k \in 1..Len(deltas) : deltas[k].id = "text-" \o ToString(k - 1)
        /\ \A j, k \in 1..Len(deltas) : deltas[j].id = deltas[k].id => j = k
        /\ textPartId = Len(deltas)
        /\ \A i \in 1..Len(emitted) :
             ~IsTextDelta(emitted[i]) => "id" \notin DOMAIN emitted[i]

\* Text deltas of two turns, with tool calls and a finish part between
\* them, have the ids text-0, text-1 and text-2.
C23_Witness ==
  /\ InStream
  /\ Len(received) = 3
  /\ IsAssistant(received[1]) /\ IsResult(received[2]) /\ received[3] = HelloTurn
  /\ Len(SelectSeq(emitted, IsToolCall)) = 2
  /\ MapSeq(LAMBDA part : part.id, SelectSeq(emitted, IsTextDelta))
       = <<"text-0", "text-1", "text-2">>

---------------------------------------------------------------------------
(* C24                                                                     *)

StreamOver == streamState \in {"closed", "errored"}

---------------------------------------------------------------------------
(* C25                                                                     *)

\* C25: a stream that was closed has emitted exactly one finish part, and
\* that part is the last part emitted before the close.
C25_ClosedThroughResult ==
  pc = "stream_done" =>
    /\ Len(SelectSeq(emitted, IsFinish)) = 1
    /\ emitted # <<>> /\ IsFinish(emitted[Len(emitted)])

---------------------------------------------------------------------------
(* C27                                                                     *)

\* A content item of the aggregated result and a part of the stream stand
\* for the same block.
Corresponds(item, part) ==
  IF item.type = "text"
    THEN /\ IsTextDelta(part)
         /\ part.delta = item.text
  ELSE /\ IsToolCall(part)
       /\ part.toolCallId = item.toolCallId
       /\ part.toolName = item.toolName
       /\ part.input = JSONStringify(item.input)

AllCorrespond(content, parts) ==
  /\ Len(content) = Len(parts)
  /\ \A i \in 1..Len(content) : Corresponds(content[i], parts[i])

NotFinish(part) == ~IsFinish(part)

\* C27: for the events of a sequence that ended without failure, the
\* content items doGenerate returns without JSON mode and the text-delta and
\* tool-call parts a stream emits correspond one to one, in order: equal
\* text, equal tool id and name, and the streamed input the JSON text of the
\* returned input.
C27_PathsAgree ==
  /\ pc = "stream_done" =>
       AllCorrespond(doGenerateReturn(collectAssistantMessages(received), FALSE).content,
                     SelectSeq(emitted, NotFinish))
  /\ pc = "gen_returned" /\ ~jsonMode =>
       AllCorrespond(genReturn[1].content,
                     SelectSeq(streamLoop(received, 0), NotFinish))

\* A stream ended after two turns, one of them with tool calls, and a
\* result: its five parts that are not the finish part match the items.
C27_Witness ==
  /\ pc = "stream_done"
  /\ Len(received) = 3
  /\ received[1] = HelloTurn
  /\ IsAssistant(received[2]) /\ received[2].stop_reason = Some("tool_use")
  /\ IsResult(received[3])
  /\ Len(SelectSeq(emitted, NotFinish)) = 5
  /\ Len(collectAssistantMessages(received).content) = 5

---------------------------------------------------------------------------
(* C28                                                                     *)

\* The errors a caller has got: what doGenerate or doStream threw and what
\* the stream was errored with.
Surfaced ==
  { thrown[i] : i \in 1..Len(thrown) } \cup { storedError[i] : i \in 1..Len(storedError) }

SpecificErrorNames ==
  { "ClaudeAuthenticationError", "ClaudeRateLimitError", "ClaudeModelNotFoundError",
    "ClaudeInvalidRequestError", "AI_APICallError" }

\* C28: every error doGenerate or doStream throws and every error a stream
\* is errored with is the generic provider error with the failure as its
\* cause, the classifier having been called once; none is an
\* authentication, rate-limit, model-not-found, invalid-request or server
\* error.
C28_OnlyGenericErrors ==
  \A err \in Surfaced :
    /\ err.name = "ClaudeProviderError"
    /\ err.name \notin SpecificErrorNames
    /\ err.cause \in Failures
    /\ "statusCode" \notin DOMAIN err
    /\ classifyCalls = 1

\* doGenerate threw the classified failure of a pull after two events.
C28_Witness ==
  /\ pc = "gen_thrown"
  /\ Len(received) = 2
  /\ thrown # None
  /\ thrown[1].name = "ClaudeProviderError"
  /\ thrown[1].cause = [isError |-> TRUE, message |-> "socket hang up"]

---------------------------------------------------------------------------
(* C29                                                                     *)

IsOther(message) == ~IsAssistant(message) /\ ~IsResult(message)
Relevant(messages) == SelectSeq(messages, LAMBDA message : ~IsOther(message))

\* C29: an event that is neither an assistant turn nor a result changes
\* nothing: when a stream receives one it enqueues no part and keeps its
\* counter, when doGenerate receives one its collected content, stop reason
\* and result stay as they are; what a stream has emitted and what
\* doGenerate returns are what the events without the other ones give.
C29_OtherEventsIgnored ==
  /\ [][received' # received /\ IsOther(received'[Len(received')]) =>
          UNCHANGED <<emitted, queue, textPartId, acc>>]_vars
  /\ [](InStream =>
          /\ emitted = streamLoop(Relevant(received), 0)
          /\ textPartId = Len(SelectSeq(streamLoop(Relevant(received), 0), IsTextDelta)))
  /\ [](pc = "generating" => acc = collectLoop(collectInit, Relevant(received)))
  /\ [](pc = "gen_returned" =>
          genReturn[1] =
            doGenerateReturn(collectAssistantMessages(Relevant(received)), jsonMode))

\* doGenerate returned the stop reason of a turn that was followed by an
\* event of another type.
C29_Witness ==
  /\ pc = "gen_returned"
  /\ received = <<HelloTurn, WorldTurn, SystemEvent>>
  /\ genReturn[1].finishReason = "stop"
  /\ Len(genReturn[1].content) = 2

---------------------------------------------------------------------------
(* Calls of detectClaudeBinaryPath in one process, the file system         *)
(* changing between them.                                                  *)

MaxDetectCalls == 3

HomeDir == "/home/u"
WhichPath == "/usr/bin/claude"

FileSystems ==
  { FileSystem(home,
               [path \in {HomePath(HomeDir), UsrLocalPath, HomebrewPath, WhichPath} |->
                  IF path = HomePath(HomeDir) THEN atHome
                  ELSE IF path = UsrLocalPath THEN atUsrLocal
                  ELSE IF path = HomebrewPath THEN atHomebrew
                  ELSE atWhich],
               whichPath) :
      home \in {None, Some(HomeDir)},
      atHome \in {None, Some("2.0.49"), Some("1.0.128")},
      atUsrLocal \in {None, Some("10.1.0")},
      atHomebrew \in {None, Some("2.0.49")},
      atWhich \in {None, Some("2.1.0"), Some("0.2.9")},
      whichPath \in {None, Some(WhichPath)} }

InitDetect ==
  /\ CallInit
  /\ errorsModule = "plain"
  /\ applied = NotApplied
  /\ twoCalls = NoCalls
  /\ accCells = [c \in 1..2 |-> collectInit]
  /\ counterCells = [c \in 1..2 |-> 0]
  /\ DetectInit
  /\ fileSystem \in FileSystems

\* A call of detectClaudeBinaryPath.
detectClaudeBinaryPath ==
  /\ Len(detectReturns) < MaxDetectCalls
  /\ IF isCached(cachedClaudePath)
       THEN /\ detectReturns' = Append(detectReturns, cachedClaudePath[1])
            /\ UNCHANGED <<cachedClaudePath, lookups>>
     ELSE /\ cachedClaudePath' = Some(lookupClaudePath(fileSystem))
          /\ lookups' = lookups + 1
          /\ detectReturns' = Append(detectReturns, lookupClaudePath(fileSystem))
  /\ UNCHANGED <<fileSystem, applied, twoVars, callVars>>

\* A binary is installed, removed or replaced, or HOME changes.
ChangeFileSystem(fs) ==
  /\ fs # fileSystem
  /\ fileSystem' = fs
  /\ UNCHANGED <<cachedClaudePath, detectReturns, lookups, applied, twoVars, callVars>>

NextDetect ==
  \/ detectClaudeBinaryPath
  \/ \E fs \in FileSystems : ChangeFileSystem(fs)

SpecDetect == InitDetect /\ [][NextDetect]_vars

---------------------------------------------------------------------------
(* C26                                                                     *)

\* C26: the first call of detectClaudeBinaryPath runs the lookup and stores
\* its result, a path or null; from then on the stored value never changes,
\* no lookup is run again, and every call returns the stored value, a stored
\* null too, whatever the file system has become.
C26_Memoized ==
  /\ [][cachedClaudePath = Undefined /\ detectReturns' # detectReturns =>
          /\ cachedClaudePath' = Some(lookupClaudePath(fileSystem))
          /\ lookups' = 1]_vars
  /\ [][cachedClaudePath # Undefined => UNCHANGED <<cachedClaudePath, lookups>>]_vars
  /\ [](\A i \in 1..Len(detectReturns) :
          cachedClaudePath # Undefined /\ detectReturns[i] = cachedClaudePath[1])
  /\ [](lookups = IF detectReturns = <<>> THEN 0 ELSE 1)

\* Three calls returned the null stored by the first one although a modern
\* binary is installed now.
C26_Witness ==
  /\ detectReturns = <<None, None, None>>
  /\ cachedClaudePath = Some(None)
  /\ lookups = 1
  /\ lookupClaudePath(fileSystem) = Some(UsrLocalPath)

==========================================================================
